---- MODULE Spec2Model ----
(***************************************************************************)
(* Model of lib/main.js of node-lambda: the deploy pipeline               *)
(* (Lambda.prototype.deploy, _deployToRegion, _updateEventSources,         *)
(* _updateScheduleEvents, _uploadNew, _uploadExisting) running against the *)
(* AWS platform, the build of the archive (_archive, _buildAndArchive,     *)
(* _archivePrebuilt, _fileCopy, _zip) and the run command (_runHandler).   *)
(* Every callback of an asynchronous call is one action; the promise       *)
(* reactions it triggers run in the same action, as Node.js drains the     *)
(* microtask queue before the next I/O callback.                           *)
(***************************************************************************)
EXTENDS Integers, Sequences, FiniteSets, TLC

\* ------------------------------------------------------------------ bounds
MaxDesired == 2      \* longest EventSourceMappings list of the desired state
MaxSchedules == 2    \* longest ScheduleEvents list of the desired state
MaxFaults == 1       \* platform calls that may fail for a transient reason
MaxRounds == 2       \* consecutive deploys of the same program
MaxBuilds == 2       \* builds in one process

AllRegions == {"us-east-1", "us-west-2"}
FunctionName == "fn"

VARIABLES
  regions,                 \* program.region.split(',')
  eventSourceFile,         \* program.eventSourceFile is set
  fileContent,             \* what fs.readJsonSync(program.eventSourceFile) yields
  fnExists,                \* platform: the function exists in the region
  remote,                  \* platform: event source mappings of the function
  nextUUID,                \* platform: next handle it hands out
  deployState,             \* "idle" | "init" | "archiving" | "start" | "running" | "threw"
                           \* package: "packaging" | "writing" | "packaged"
  deployOut,               \* "pending" | "printed" | "silent" | "error"
  printed,                 \* the results array deploy prints
  fn,                      \* per region: the function-level call in flight
  path,                    \* per region: "none" | "create" | "update"
  existingEventSourceList, \* per region: argument of _updateEventSources
  updateEventSourceList,   \* per region: the operation list of the diff
  opStatus,                \* per region: state of each binding call
  evPromise,               \* per region: promise of _updateEventSources
  schedStatus,             \* per region: state of each scheduleEvents.add
  schedPromise,            \* per region: promise of _updateScheduleEvents
  regionPromise,           \* per region: promise of _deployToRegion
  regionResult,            \* per region: value the promise resolved with
  issued,                  \* per region: platform calls in issue order
  faults,                  \* transient platform failures so far
  round,                   \* number of the current deploy
  reconciled,              \* per region: the previous deploy resolved there
  program,                 \* options: runtime, deployZipfile, prebuiltDirectory, excludeGlobs
  sourceTree,              \* files below the directory the build copies from
  zipfileOnDisk,           \* fs.existsSync(program.deployZipfile)
  scratch,                 \* files below the code directory ./.lambda
  zip,                     \* entries of the module's node-zip object
  stage,                   \* build step in flight: "idle" | "read" | "clean" | "copy" |
                           \* "install" | "hook" | "zip" | "archived" | "failed"
  stagesRun,               \* build steps started, in order
  buildErr,                \* the build step that reported an error, or "none"
  buffer,                  \* files of the archive handed to the archive callback
  archiveCalls,            \* calls of _archive
  params,                  \* the object _params returned
  shipped,                 \* per region: ZipFile of each createFunction/updateFunctionCode
  event,                   \* run: content of the event file
  context,                 \* run: the context object handed to the handler
  timers,                  \* run: timers of the handler that have not fired
  runState,                \* run: "idle" | "init" | "loop" | "exited"
  exitCode,                \* run: process.exitCode, at exit the exit status
  stdout,                  \* run: lines written to standard output
  awsConfig,               \* aws.config.region, one configuration per process
  lambda,                  \* per region: the client _deployToRegion constructed
  scheduleEvents           \* per region: the ScheduleEvents object constructed

inputVars == <<regions, eventSourceFile, fileContent>>
platformVars == <<fnExists, remote, nextUUID>>
deployVars == <<deployState, deployOut, printed>>
bindingVars == <<existingEventSourceList, updateEventSourceList, opStatus, evPromise>>
scheduleVars == <<schedStatus, schedPromise>>
regionVars == <<fn, path, regionPromise, regionResult, issued>>
buildVars == <<program, sourceTree, zipfileOnDisk, scratch, zip, stage, stagesRun,
               buildErr, buffer, archiveCalls>>
runVars == <<event, context, timers, runState, exitCode, stdout>>
clientVars == <<awsConfig, lambda, scheduleEvents>>
vars == <<inputVars, platformVars, deployVars, bindingVars, scheduleVars,
          regionVars, faults, round, reconciled, buildVars, params, clientVars, shipped, runVars>>

\* ------------------------------------------------------------ sequences
Range(s) == {s[i] : i \in 1..Len(s)}

RECURSIVE SeqOfSet(_)
SeqOfSet(S) ==
  IF S = {} THEN <<>>
  ELSE LET m == CHOOSE x \in S : \A y \in S : x.UUID <= y.UUID
       IN <<m>> \o SeqOfSet(S \ {m})

AllIn(s, v) == \A i \in 1..Len(s) : s[i] = v

\* ------------------------------------------------- Desired-state loader
\* variant: without a file the two collections are empty lists, not null
eventSourceListEmptyLists ==
  [isNull |-> FALSE,
   EventSourceMappings |-> IF eventSourceFile THEN fileContent.EventSourceMappings ELSE <<>>,
   ScheduleEvents |-> IF eventSourceFile THEN fileContent.ScheduleEvents ELSE <<>>]

\* _eventSourceList: no file => both collections null; otherwise the lists.
eventSourceList ==
  IF ~eventSourceFile
  THEN [isNull |-> TRUE, EventSourceMappings |-> <<>>, ScheduleEvents |-> <<>>]
  ELSE [isNull |-> FALSE,
        EventSourceMappings |-> fileContent.EventSourceMappings,
        ScheduleEvents |-> fileContent.ScheduleEvents]

\* ------------------------------------------------------------- the diff
\* variant: the comparison of the inner loop never succeeds
MatchIndexNever(d, existing) == 0

\* index of the first existing mapping with the ARN of d, 0 when there is none
MatchIndex(d, existing) ==
  LET J == {j \in 1..Len(existing) : existing[j].EventSourceArn = d.EventSourceArn}
  IN IF J = {} THEN 0 ELSE CHOOSE j \in J : \A k \in J : j <= k

\* variant: the update keeps the batch size of the existing mapping
UpdateOpKeepsBatchSize(functionName, d, e) ==
  [type |-> "update", FunctionName |-> functionName, Enabled |-> d.Enabled,
   BatchSize |-> e.BatchSize, UUID |-> e.UUID]

UpdateOp(functionName, d, e) ==
  [type |-> "update", FunctionName |-> functionName, Enabled |-> d.Enabled,
   BatchSize |-> d.BatchSize, UUID |-> e.UUID]

\* a falsy Enabled / BatchSize / StartingPosition takes the default
CreateOp(functionName, d) ==
  [type |-> "create", FunctionName |-> functionName,
   EventSourceArn |-> d.EventSourceArn,
   Enabled |-> IF d.Enabled THEN d.Enabled ELSE FALSE,
   BatchSize |-> IF d.BatchSize # 0 THEN d.BatchSize ELSE 100,
   StartingPosition |-> IF d.StartingPosition # "" THEN d.StartingPosition ELSE "LATEST"]

DeleteOp(e) == [type |-> "delete", UUID |-> e.UUID]

NewOrUpdate(functionName, d, existing) ==
  LET j == MatchIndex(d, existing)
  IN IF j # 0 THEN UpdateOp(functionName, d, existing[j])
     ELSE CreateOp(functionName, d)

IsDesired(e, desired) ==
  \E j \in 1..Len(desired) : desired[j].EventSourceArn = e.EventSourceArn

\* variant: the second loop never finds a desired match
DeleteOpsAll(existing, desired) ==
  [j \in 1..Len(existing) |-> DeleteOp(existing[j])]

RECURSIVE DeleteOps(_, _)
DeleteOps(existing, desired) ==
  IF existing = <<>> THEN <<>>
  ELSE (IF IsDesired(Head(existing), desired) THEN <<>>
        ELSE <<DeleteOp(Head(existing))>>)
       \o DeleteOps(Tail(existing), desired)

\* the operation list _updateEventSources builds before it issues the calls
DiffOps(functionName, existing, desired) ==
  [i \in 1..Len(desired) |-> NewOrUpdate(functionName, desired[i], existing)]
  \o DeleteOps(existing, desired)

\* ------------------------------------------------------------- promises
\* Promise.all of two promises ("none": the promise does not exist yet)
PromiseAll2(a, b) ==
  IF a = "rejected" \/ b = "rejected" THEN "rejected"
  ELSE IF a = "resolved" /\ b = "resolved" THEN "resolved"
  ELSE "pending"

\* Promise.all over the binding calls of _updateEventSources
PromiseAllOps(status) ==
  IF \E i \in 1..Len(status) : status[i] = "err" THEN "rejected"
  ELSE IF AllIn(status, "ok") THEN "resolved"
  ELSE "pending"

\* variant: a failed upload is not passed on as a rejection
UploadThenSwallowsError(f, sched) ==
  IF f \in {"ok", "err"} THEN sched ELSE "pending"

\* the promise of the function upload followed by its .then continuation
UploadThen(f, sched) ==
  IF f = "err" THEN "rejected" ELSE IF f = "ok" THEN sched ELSE "pending"

\* variant: the callback of the list call returns on an error without
\* rejecting the promise of the region
RegionSettleDropsListError(f, ev, sched) ==
  IF f \in {"probe", "list", "listErr"} THEN "pending"
  ELSE PromiseAll2(UploadThen(f, sched), ev)

\* state of the promise _deployToRegion returns, from the state of its parts:
\* create path  _uploadNew.then(Promise.all([eventSources, schedules]))
\* update path  Promise.all([_uploadExisting.then(schedules), eventSources])
RegionSettle(f, ev, sched) ==
  IF f = "listErr" THEN "rejected"
  ELSE IF f \in {"probe", "list"} THEN "pending"
  ELSE PromiseAll2(UploadThen(f, sched), ev)

\* variant: only the first entry of every region is looked at
ResultsIsEmptyFirstEntry(results) ==
  \A i \in 1..Len(results) : Len(results[i]) > 0 => Len(results[i][1]) = 0

\* resultsIsEmpty of deploy: no region has a non-empty entry
ResultsIsEmpty(results) ==
  \A i \in 1..Len(results) : \A k \in 1..Len(results[i]) : Len(results[i][k]) = 0

FunctionArn(r) == <<r, FunctionName>>

\* paramsList of _updateScheduleEvents
ParamsList(r, scheduleList) ==
  [i \in 1..Len(scheduleList) |->
     [ScheduleName |-> scheduleList[i].ScheduleName, FunctionArn |-> FunctionArn(r)]]

\* the reduce chain of _updateScheduleEvents: a.then(b) is handed the promise
\* b that scheduleEvents.add returned, which then() ignores, so the chain
\* settles without waiting for any add
ScheduleChain(status) == "resolved"

\* variant: the 'create' case of the switch issues the update call
CallNameCreateAsUpdate(op) ==
  IF op.type = "delete" THEN "deleteEventSourceMapping" ELSE "updateEventSourceMapping"

CallName(op) ==
  IF op.type = "create" THEN "createEventSourceMapping"
  ELSE IF op.type = "update" THEN "updateEventSourceMapping"
  ELSE "deleteEventSourceMapping"

\* settle the region's promise and, through Promise.all of deploy, deploy itself
Settle(r, pth, f, ev, sched, evData, schedData) ==
  LET p2 == IF regionPromise[r] # "pending" THEN regionPromise[r]
            ELSE RegionSettle(f, ev, sched)
      rp == [regionPromise EXCEPT ![r] = p2]
      res == IF regionPromise[r] = "pending" /\ p2 = "resolved"
             THEN (IF pth = "create" THEN <<evData, schedData>>
                   ELSE <<schedData, evData>>)
             ELSE regionResult[r]
      rr == [regionResult EXCEPT ![r] = res]
      results == [i \in 1..Len(regions) |-> rr[regions[i]]]
  IN /\ regionPromise' = rp
     /\ regionResult' = rr
     /\ IF deployOut # "pending" THEN UNCHANGED <<deployOut, printed>>
        ELSE IF \E q \in Range(regions) : rp[q] = "rejected"
        THEN deployOut' = "error" /\ UNCHANGED printed
        ELSE IF \A q \in Range(regions) : rp[q] = "resolved"
        THEN IF ResultsIsEmpty(results)
             THEN deployOut' = "silent" /\ UNCHANGED printed
             ELSE deployOut' = "printed" /\ printed' = results
        ELSE UNCHANGED <<deployOut, printed>>

\* variant: the catch handler ends the process
CatchExitsProcess == TRUE

\* the catch handler of deploy only logs the error; it does not end the
\* process, so the callbacks of the calls still in flight keep running
CatchExits == FALSE

Alive == ~(CatchExits /\ deployOut = "error")

\* a platform call may fail for a transient reason while the budget lasts
Fault(err, forced) ==
  IF err /\ ~forced
  THEN faults < MaxFaults /\ faults' = faults + 1
  ELSE UNCHANGED faults

\* ------------------------------------------------------ program inputs
DesiredPool ==
  { [EventSourceArn |-> "A", Enabled |-> TRUE, BatchSize |-> 10, StartingPosition |-> ""],
    [EventSourceArn |-> "B", Enabled |-> FALSE, BatchSize |-> 0, StartingPosition |-> "TRIM_HORIZON"],
    [EventSourceArn |-> "C", Enabled |-> FALSE, BatchSize |-> 0, StartingPosition |-> ""] }

ExistingPool ==
  { [EventSourceArn |-> "A", UUID |-> 1, BatchSize |-> 5, Enabled |-> FALSE],
    [EventSourceArn |-> "B", UUID |-> 2, BatchSize |-> 100, Enabled |-> TRUE] }

FirstNewUUID == 3

\* sourceArn is unique within one desired set
UniqueArns(s) ==
  \A i, j \in 1..Len(s) : s[i].EventSourceArn = s[j].EventSourceArn => i = j

DesiredLists(pool) ==
  {s \in UNION {[1..n -> pool] : n \in 0..MaxDesired} : UniqueArns(s)}

ScheduleLists ==
  {[i \in 1..n |-> [ScheduleName |-> i]] : n \in 0..MaxSchedules}

\* _params: the request object built once from the options and the archive
Params(prog, buf) ==
  [FunctionName |-> FunctionName, Code |-> [ZipFile |-> buf], Runtime |-> prog.runtime]

\* before _params has run
NoParams == [FunctionName |-> "", Code |-> [ZipFile |-> {}], Runtime |-> ""]

\* variant: the code update is sent without the archive
ZipFileOfNothing(p) == {}

\* the ZipFile a createFunction or updateFunctionCode request carries
ZipFileOf(p) == p.Code.ZipFile

\* aws.config.region before any update
NoRegion == "none"

\* no client has been constructed
NoClient == [region |-> NoRegion]

TaskInit ==
  /\ deployOut = "pending"
  /\ printed = <<>>
  /\ fn = [r \in AllRegions |-> "none"]
  /\ path = [r \in AllRegions |-> "none"]
  /\ existingEventSourceList = [r \in AllRegions |-> <<>>]
  /\ updateEventSourceList = [r \in AllRegions |-> <<>>]
  /\ opStatus = [r \in AllRegions |-> <<>>]
  /\ evPromise = [r \in AllRegions |-> "none"]
  /\ schedStatus = [r \in AllRegions |-> <<>>]
  /\ schedPromise = [r \in AllRegions |-> "none"]
  /\ regionPromise = [r \in AllRegions |-> "none"]
  /\ regionResult = [r \in AllRegions |-> <<>>]
  /\ issued = [r \in AllRegions |-> <<>>]
  /\ faults = 0
  /\ round = 1
  /\ reconciled = [r \in AllRegions |-> FALSE]
  /\ params = NoParams
  /\ shipped = [r \in AllRegions |-> <<>>]
  /\ awsConfig = NoRegion
  /\ lambda = [r \in AllRegions |-> NoClient]
  /\ scheduleEvents = [r \in AllRegions |-> NoClient]

\* a function that does not exist has no event source mappings
PlatformInit(R, existing) ==
  /\ fnExists \in [AllRegions -> BOOLEAN]
  /\ remote \in [AllRegions -> SUBSET existing]
  /\ \A r \in AllRegions : (~fnExists[r] \/ r \notin R) => remote[r] = {}
  /\ \A r \in AllRegions : r \notin R => ~fnExists[r]
  /\ nextUUID = [r \in AllRegions |-> FirstNewUUID]

\* ------------------------------------------- _updateEventSources (calls)
\* the state of the binding calls right after _updateEventSources returned
StartEventSources(r, existing) ==
  LET ops == IF eventSourceList.isNull THEN <<>>
             ELSE DiffOps(FunctionName, existing, eventSourceList.EventSourceMappings)
      status == [i \in 1..Len(ops) |-> "inflight"]
  IN [existing |-> existing, ops |-> ops, status |-> status,
      promise |-> PromiseAllOps(status),
      calls |-> [i \in 1..Len(ops) |-> CallName(ops[i])]]

\* the state of the schedule calls right after _updateScheduleEvents returned:
\* map() has called scheduleEvents.add for every element of the list
StartScheduleEvents(r) ==
  LET list == IF eventSourceList.isNull THEN <<>> ELSE eventSourceList.ScheduleEvents
      status == [i \in 1..Len(list) |-> "inflight"]
  IN [status |-> status, promise |-> ScheduleChain(status),
      data |-> ParamsList(r, list),
      calls |-> [i \in 1..Len(list) |-> "scheduleEvents.add"]]

\* --------------------------------------------------- platform clients
\* new aws.Lambda(...): a service client takes the region of the global
\* configuration when it is constructed and keeps it
NewLambda(config) == [region |-> config]

\* new ScheduleEvents(aws): the object constructs its clients from the
\* configuration it is handed
NewScheduleEvents(config) == [region |-> config]

\* variant: the clients are constructed before the global configuration is
\* updated with the region
DeployToRegionClientsFirst(st, region) ==
  [config |-> region,
   lambda |-> [st.lambda EXCEPT ![region] = NewLambda(st.config)],
   scheduleEvents |-> [st.scheduleEvents EXCEPT ![region] = NewScheduleEvents(st.config)]]

\* the executor of _deployToRegion up to the construction of its clients:
\* aws.config.update with the region, then the two clients of the closure
DeployToRegionClients(st, region) ==
  LET config == region
  IN [config |-> config,
      lambda |-> [st.lambda EXCEPT ![region] = NewLambda(config)],
      scheduleEvents |-> [st.scheduleEvents EXCEPT ![region] = NewScheduleEvents(config)]]

\* regions.map(region => _deployToRegion(...)): the executors run one after
\* the other, in the order of the list, before any callback
RECURSIVE MapRegions(_, _)
MapRegions(rs, st) ==
  IF rs = <<>> THEN st
  ELSE MapRegions(Tail(rs), DeployToRegionClients(st, Head(rs)))

\* the region the client used for a call of region r's reconciler points at:
\* schedule upserts go through scheduleEvents, every other call through lambda
TargetRegion(r, call) ==
  IF call = "scheduleEvents.add" THEN scheduleEvents[r].region
  ELSE lambda[r].region

\* ------------------------------------------------------------- actions
\* deploy: the archive callback launches _deployToRegion for every region;
\* each issues getFunction before it returns its promise
Launch(buf) ==
  /\ deployState' = "running"
  /\ params' = Params(program, buf)
  /\ LET st == MapRegions(regions, [config |-> awsConfig, lambda |-> lambda,
                                    scheduleEvents |-> scheduleEvents])
     IN /\ awsConfig' = st.config
        /\ lambda' = st.lambda
        /\ scheduleEvents' = st.scheduleEvents
  /\ fn' = [r \in AllRegions |-> IF r \in Range(regions) THEN "probe" ELSE fn[r]]
  /\ regionPromise' = [r \in AllRegions |->
                         IF r \in Range(regions) THEN "pending" ELSE regionPromise[r]]
  /\ issued' = [r \in AllRegions |->
                  IF r \in Range(regions) THEN <<"getFunction">> ELSE issued[r]]

\* the archive callback of deploy is called with the archive
Deploy ==
  /\ deployState = "start"
  /\ Launch(buffer)
  /\ UNCHANGED <<inputVars, buildVars, runVars, shipped, platformVars,
                 deployOut, printed, bindingVars,
                 scheduleVars, path, regionResult, faults, round, reconciled>>

\* callback of lambda.getFunction: any error means "function does not exist"
GetFunctionDone(r, err) ==
  /\ Alive
  /\ fn[r] = "probe"
  /\ ~err => fnExists[r]
  /\ Fault(err, ~fnExists[r])
  /\ IF err
     THEN /\ path' = [path EXCEPT ![r] = "create"]
          /\ fn' = [fn EXCEPT ![r] = "new"]
          /\ issued' = [issued EXCEPT ![r] = Append(@, "createFunction")]
          /\ shipped' = [shipped EXCEPT ![r] = Append(@, ZipFileOf(params))]
     ELSE /\ path' = [path EXCEPT ![r] = "update"]
          /\ fn' = [fn EXCEPT ![r] = "list"]
          /\ issued' = [issued EXCEPT ![r] = Append(@, "listEventSourceMappings")]
          /\ UNCHANGED shipped
  /\ UNCHANGED <<inputVars, buildVars, runVars, params, clientVars, platformVars,
                 deployVars, bindingVars, scheduleVars,
                 regionPromise, regionResult, round, reconciled>>

\* callback of lambda.createFunction (_uploadNew) and, on success, the .then
\* that starts _updateEventSources with [] and _updateScheduleEvents
CreateFunctionDone(r, err) ==
  /\ Alive
  /\ fn[r] = "new"
  /\ ~err => ~fnExists[r]
  /\ Fault(err, fnExists[r])
  /\ IF err
     THEN /\ fn' = [fn EXCEPT ![r] = "err"]
          /\ Settle(r, "create", "err", evPromise[r], schedPromise[r], <<>>, <<>>)
          /\ UNCHANGED <<platformVars, bindingVars, scheduleVars, issued>>
     ELSE LET ev == StartEventSources(r, <<>>)
              sc == StartScheduleEvents(r)
          IN /\ fn' = [fn EXCEPT ![r] = "ok"]
             /\ fnExists' = [fnExists EXCEPT ![r] = TRUE]
             /\ existingEventSourceList' = [existingEventSourceList EXCEPT ![r] = ev.existing]
             /\ updateEventSourceList' = [updateEventSourceList EXCEPT ![r] = ev.ops]
             /\ opStatus' = [opStatus EXCEPT ![r] = ev.status]
             /\ evPromise' = [evPromise EXCEPT ![r] = ev.promise]
             /\ schedStatus' = [schedStatus EXCEPT ![r] = sc.status]
             /\ schedPromise' = [schedPromise EXCEPT ![r] = sc.promise]
             /\ issued' = [issued EXCEPT ![r] = @ \o ev.calls \o sc.calls]
             /\ Settle(r, "create", "ok", ev.promise, sc.promise, ev.status, sc.data)
             /\ UNCHANGED <<remote, nextUUID>>
  /\ UNCHANGED <<inputVars, buildVars, runVars, params, clientVars, shipped, deployState,
                 path, round, reconciled>>

\* variant: the error branch rejects without returning, so the code update is
\* issued after the list has failed
ListDoneRejectsWithoutReturn(r, err) ==
  /\ Alive
  /\ fn[r] = "list"
  /\ Fault(err, FALSE)
  /\ IF err
     THEN /\ fn' = [fn EXCEPT ![r] = "listErr"]
          /\ Settle(r, "update", "listErr", evPromise[r], schedPromise[r], <<>>, <<>>)
          /\ issued' = [issued EXCEPT ![r] = Append(@, "updateFunctionCode")]
          /\ shipped' = [shipped EXCEPT ![r] = Append(@, ZipFileOf(params))]
          /\ UNCHANGED bindingVars
     ELSE LET ev == StartEventSources(r, SeqOfSet(remote[r]))
          IN /\ fn' = [fn EXCEPT ![r] = "code"]
             /\ existingEventSourceList' = [existingEventSourceList EXCEPT ![r] = ev.existing]
             /\ updateEventSourceList' = [updateEventSourceList EXCEPT ![r] = ev.ops]
             /\ opStatus' = [opStatus EXCEPT ![r] = ev.status]
             /\ evPromise' = [evPromise EXCEPT ![r] = ev.promise]
             /\ issued' = [issued EXCEPT ![r] = Append(@, "updateFunctionCode") \o ev.calls]
             /\ shipped' = [shipped EXCEPT ![r] = Append(@, ZipFileOf(params))]
             /\ Settle(r, "update", "code", ev.promise, schedPromise[r], ev.status, <<>>)
  /\ UNCHANGED <<inputVars, buildVars, runVars, params, clientVars, platformVars,
                 deployState, scheduleVars, path, round,
                 reconciled>>

\* callback of lambda.listEventSourceMappings (_listEventSourceMappings) and,
\* on success, Promise.all([_uploadExisting(...).then(...), _updateEventSources(...)]):
\* updateFunctionCode and every binding call are issued in this one step
ListDone(r, err) ==
  /\ Alive
  /\ fn[r] = "list"
  /\ Fault(err, FALSE)
  /\ IF err
     THEN /\ fn' = [fn EXCEPT ![r] = "listErr"]
          /\ Settle(r, "update", "listErr", evPromise[r], schedPromise[r], <<>>, <<>>)
          /\ UNCHANGED <<bindingVars, issued, shipped>>
     ELSE LET ev == StartEventSources(r, SeqOfSet(remote[r]))
          IN /\ fn' = [fn EXCEPT ![r] = "code"]
             /\ existingEventSourceList' = [existingEventSourceList EXCEPT ![r] = ev.existing]
             /\ updateEventSourceList' = [updateEventSourceList EXCEPT ![r] = ev.ops]
             /\ opStatus' = [opStatus EXCEPT ![r] = ev.status]
             /\ evPromise' = [evPromise EXCEPT ![r] = ev.promise]
             /\ issued' = [issued EXCEPT ![r] = Append(@, "updateFunctionCode") \o ev.calls]
             /\ shipped' = [shipped EXCEPT ![r] = Append(@, ZipFileOf(params))]
             /\ Settle(r, "update", "code", ev.promise, schedPromise[r], ev.status, <<>>)
  /\ UNCHANGED <<inputVars, buildVars, runVars, params, clientVars, platformVars,
                 deployState, scheduleVars, path, round,
                 reconciled>>

\* variant: the continuation that starts the schedule events hangs on the
\* code update instead of on the configuration update
UpdateCodeDoneStartsSchedules(r, err) ==
  /\ Alive
  /\ fn[r] = "code"
  /\ Fault(err, FALSE)
  /\ IF err
     THEN /\ fn' = [fn EXCEPT ![r] = "err"]
          /\ Settle(r, "update", "err", evPromise[r], schedPromise[r], opStatus[r], <<>>)
          /\ UNCHANGED <<scheduleVars, issued>>
     ELSE LET sc == StartScheduleEvents(r)
          IN /\ fn' = [fn EXCEPT ![r] = "config"]
             /\ schedStatus' = [schedStatus EXCEPT ![r] = sc.status]
             /\ schedPromise' = [schedPromise EXCEPT ![r] = sc.promise]
             /\ issued' = [issued EXCEPT ![r] =
                             Append(@, "updateFunctionConfiguration") \o sc.calls]
             /\ UNCHANGED <<deployOut, printed, regionPromise, regionResult>>
  /\ UNCHANGED <<inputVars, buildVars, runVars, params, clientVars, shipped,
                 platformVars, deployState, bindingVars, path, round,
                 reconciled>>

\* callback of lambda.updateFunctionCode (_uploadExisting): on success the
\* configuration update is issued, on error the upload promise rejects
UpdateCodeDone(r, err) ==
  /\ Alive
  /\ fn[r] = "code"
  /\ Fault(err, FALSE)
  /\ IF err
     THEN /\ fn' = [fn EXCEPT ![r] = "err"]
          /\ Settle(r, "update", "err", evPromise[r], schedPromise[r], opStatus[r], <<>>)
          /\ UNCHANGED issued
     ELSE /\ fn' = [fn EXCEPT ![r] = "config"]
          /\ issued' = [issued EXCEPT ![r] = Append(@, "updateFunctionConfiguration")]
          /\ UNCHANGED <<deployOut, printed, regionPromise, regionResult>>
  /\ UNCHANGED <<inputVars, buildVars, runVars, params, clientVars, shipped,
                 platformVars, deployState, bindingVars, scheduleVars,
                 path, round, reconciled>>

\* callback of lambda.updateFunctionConfiguration (_uploadExisting) and, on
\* success, the .then of _deployToRegion that starts _updateScheduleEvents
UpdateConfigDone(r, err) ==
  /\ Alive
  /\ fn[r] = "config"
  /\ Fault(err, FALSE)
  /\ IF err
     THEN /\ fn' = [fn EXCEPT ![r] = "err"]
          /\ Settle(r, "update", "err", evPromise[r], schedPromise[r], opStatus[r], <<>>)
          /\ UNCHANGED <<scheduleVars, issued>>
     ELSE LET sc == StartScheduleEvents(r)
          IN /\ fn' = [fn EXCEPT ![r] = "ok"]
             /\ schedStatus' = [schedStatus EXCEPT ![r] = sc.status]
             /\ schedPromise' = [schedPromise EXCEPT ![r] = sc.promise]
             /\ issued' = [issued EXCEPT ![r] = @ \o sc.calls]
             /\ Settle(r, "update", "ok", evPromise[r], sc.promise, opStatus[r], sc.data)
  /\ UNCHANGED <<inputVars, buildVars, runVars, params, clientVars, shipped,
                 platformVars, deployState, bindingVars, path, round,
                 reconciled>>

\* what the platform does with a binding call that succeeds
ApplyOp(mappings, op, uuid) ==
  IF op.type = "create"
  THEN mappings \cup {[EventSourceArn |-> op.EventSourceArn, UUID |-> uuid,
                       BatchSize |-> op.BatchSize, Enabled |-> op.Enabled]}
  ELSE IF op.type = "update"
  THEN {IF m.UUID = op.UUID
        THEN [m EXCEPT !.Enabled = op.Enabled,
                       !.BatchSize = IF op.BatchSize # 0 THEN op.BatchSize ELSE @]
        ELSE m : m \in mappings}
  ELSE {m \in mappings : m.UUID # op.UUID}

\* the platform refuses a second mapping of one source and an unknown handle
Refused(mappings, op) ==
  IF op.type = "create"
  THEN \E m \in mappings : m.EventSourceArn = op.EventSourceArn
  ELSE \A m \in mappings : m.UUID # op.UUID

\* callback of create/update/deleteEventSourceMapping of _updateEventSources:
\* resolves or rejects the call's promise inside Promise.all
EventSourceOpDone(r, i, err) ==
  /\ Alive
  /\ i \in 1..Len(opStatus[r])
  /\ opStatus[r][i] = "inflight"
  /\ LET op == updateEventSourceList[r][i]
         status == [opStatus[r] EXCEPT ![i] = IF err THEN "err" ELSE "ok"]
         ev == IF evPromise[r] = "pending" THEN PromiseAllOps(status) ELSE evPromise[r]
     IN /\ ~err => ~Refused(remote[r], op)
        /\ Fault(err, Refused(remote[r], op))
        /\ opStatus' = [opStatus EXCEPT ![r] = status]
        /\ evPromise' = [evPromise EXCEPT ![r] = ev]
        /\ IF err THEN UNCHANGED <<remote, nextUUID>>
           ELSE /\ remote' = [remote EXCEPT ![r] = ApplyOp(@, op, nextUUID[r])]
                /\ nextUUID' = [nextUUID EXCEPT ![r] = IF op.type = "create" THEN @ + 1 ELSE @]
        /\ Settle(r, path[r], fn[r], ev, schedPromise[r], status,
                  ParamsList(r, eventSourceList.ScheduleEvents))
  /\ UNCHANGED <<inputVars, buildVars, runVars, params, clientVars, shipped, fnExists,
                 deployState, existingEventSourceList,
                 updateEventSourceList, scheduleVars, fn, path, issued, round,
                 reconciled>>

\* completion of one scheduleEvents.add: nothing in _updateScheduleEvents
\* observes the promise add returned
ScheduleAddDone(r, i, err) ==
  /\ Alive
  /\ i \in 1..Len(schedStatus[r])
  /\ schedStatus[r][i] = "inflight"
  /\ Fault(err, FALSE)
  /\ schedStatus' = [schedStatus EXCEPT ![r][i] = IF err THEN "err" ELSE "ok"]
  /\ UNCHANGED <<inputVars, buildVars, runVars, params, clientVars, shipped,
                 platformVars, deployVars, bindingVars, schedPromise,
                 regionVars, round, reconciled>>

\* ------------------------------------------------------- specification
Quiet(r) ==
  /\ fn[r] \in {"none", "ok", "err", "listErr"}
  /\ \A i \in 1..Len(opStatus[r]) : opStatus[r][i] # "inflight"
  /\ \A i \in 1..Len(schedStatus[r]) : schedStatus[r][i] # "inflight"

\* the next deploy of the same program, once the previous one has reported and
\* no call of it is in flight any more
Redeploy ==
  /\ deployState = "running"
  /\ deployOut # "pending"
  /\ \A r \in AllRegions : Quiet(r)
  /\ round < MaxRounds
  /\ round' = round + 1
  /\ reconciled' = [r \in AllRegions |-> regionPromise[r] = "resolved"]
  /\ deployState' = "start"
  /\ deployOut' = "pending"
  /\ printed' = <<>>
  /\ fn' = [r \in AllRegions |-> "none"]
  /\ path' = [r \in AllRegions |-> "none"]
  /\ existingEventSourceList' = [r \in AllRegions |-> <<>>]
  /\ updateEventSourceList' = [r \in AllRegions |-> <<>>]
  /\ opStatus' = [r \in AllRegions |-> <<>>]
  /\ evPromise' = [r \in AllRegions |-> "none"]
  /\ schedStatus' = [r \in AllRegions |-> <<>>]
  /\ schedPromise' = [r \in AllRegions |-> "none"]
  /\ regionPromise' = [r \in AllRegions |-> "none"]
  /\ regionResult' = [r \in AllRegions |-> <<>>]
  /\ issued' = [r \in AllRegions |-> <<>>]
  /\ params' = NoParams
  /\ shipped' = [r \in AllRegions |-> <<>>]
  /\ awsConfig' = NoRegion
  /\ lambda' = [r \in AllRegions |-> NoClient]
  /\ scheduleEvents' = [r \in AllRegions |-> NoClient]
  /\ UNCHANGED <<inputVars, buildVars, runVars, platformVars, faults>>

\* ------------------------------------------------------------ _fileCopy
\* a string of the build as the sequence of its characters
Chars(str) ==
  CASE str = "package.json" -> <<"p", "a", "c", "k", "a", "g", "e", ".", "j", "s", "o", "n">>
    [] str = "index.js" -> <<"i", "n", "d", "e", "x", ".", "j", "s">>
    [] str = ".git" -> <<".", "g", "i", "t">>
    [] str = "config" -> <<"c", "o", "n", "f", "i", "g">>
    [] str = ".gitignore" -> <<".", "g", "i", "t", "i", "g", "n", "o", "r", "e">>
    [] str = ".lambda" -> <<".", "l", "a", "m", "b", "d", "a">>
    [] str = "old.js" -> <<"o", "l", "d", ".", "j", "s">>
    [] str = "build" -> <<"b", "u", "i", "l", "d">>
    [] str = "out.js" -> <<"o", "u", "t", ".", "j", "s">>
    [] str = "node_modules" -> <<"n", "o", "d", "e", "_", "m", "o", "d", "u", "l", "e", "s">>
    [] str = "dep.js" -> <<"d", "e", "p", ".", "j", "s">>
    [] str = "deploy.env" -> <<"d", "e", "p", "l", "o", "y", ".", "e", "n", "v">>
    [] str = "debug.log" -> <<"d", "e", "b", "u", "g", ".", "l", "o", "g">>
    [] str = "notes.swp" -> <<"n", "o", "t", "e", "s", ".", "s", "w", "p">>
    [] str = ".editorconfig" -> <<".", "e", "d", "i", "t", "o", "r", "c", "o", "n", "f", "i", "g">>
    [] str = "sub" -> <<"s", "u", "b">>
    [] str = "README.md" -> <<"R", "E", "A", "D", "M", "E", ".", "m", "d">>
    [] str = "docs" -> <<"d", "o", "c", "s">>
    [] str = "api.md" -> <<"a", "p", "i", ".", "m", "d">>
    [] str = "post_install.sh" -> <<"p", "o", "s", "t", "_", "i", "n", "s", "t", "a", "l", "l", ".", "s", "h">>
    [] str = "generated.js" -> <<"g", "e", "n", "e", "r", "a", "t", "e", "d", ".", "j", "s">>
    [] str = "handler.js" -> <<"h", "a", "n", "d", "l", "e", "r", ".", "j", "s">>
    [] str = ".git*" -> <<".", "g", "i", "t", "*">>
    [] str = "*.swp" -> <<"*", ".", "s", "w", "p">>
    [] str = "*.log" -> <<"*", ".", "l", "o", "g">>
    [] str = "/build/" -> <<"/", "b", "u", "i", "l", "d", "/">>
    [] str = "/node_modules" -> <<"/", "n", "o", "d", "e", "_", "m", "o", "d", "u", "l", "e", "s">>
    [] str = "/home/app" -> <<"/", "h", "o", "m", "e", "/", "a", "p", "p">>
    [] str = "/package.json" -> <<"/", "p", "a", "c", "k", "a", "g", "e", ".", "j", "s", "o", "n">>
    [] str = "/**" -> <<"/", "*", "*">>
    [] str = "*.md docs/" -> <<"*", ".", "m", "d", " ", "d", "o", "c", "s", "/">>
    [] str = "*.json" -> <<"*", ".", "j", "s", "o", "n">>
    [] OTHER -> <<>>

Sep == "/"

\* str.split(sep)
RECURSIVE SplitOn(_, _)
SplitOn(str, sep) ==
  IF \A i \in 1..Len(str) : str[i] # sep THEN <<str>>
  ELSE LET i == CHOOSE k \in 1..Len(str) :
                  str[k] = sep /\ \A j \in 1..(k - 1) : str[j] # sep
       IN <<SubSeq(str, 1, i - 1)>> \o SplitOn(SubSeq(str, i + 1, Len(str)), sep)

\* path.resolve(src): the directory the copy starts from
srcAbsolutePath == Chars("/home/app")

\* the absolute path of a file or directory given by its names below src
RECURSIVE PathString(_)
PathString(names) ==
  IF names = <<>> THEN srcAbsolutePath
  ELSE PathString(SubSeq(names, 1, Len(names) - 1)) \o <<Sep>> \o Chars(names[Len(names)])

\* excludes of _fileCopy
Excludes(prog, excludeNodeModules) ==
  <<Chars(".git*"), Chars("*.swp"), Chars(".editorconfig"), Chars(".lambda"),
    Chars("deploy.env"), Chars("*.log"), Chars("/build/")>>
  \o (IF prog.excludeGlobs # "" THEN SplitOn(Chars(prog.excludeGlobs), " ") ELSE <<>>)
  \o (IF excludeNodeModules THEN <<Chars("/node_modules")>> ELSE <<>>)

EndsWithSep(str) == Len(str) > 0 /\ str[Len(str)] = Sep

StripSep(str) == IF EndsWithSep(str) THEN SubSeq(str, 1, Len(str) - 1) ELSE str

\* dirBlobs: the excludes that ended with the separator
DirBlobs(excludes) ==
  {StripSep(excludes[i]) : i \in {j \in 1..Len(excludes) : EndsWithSep(excludes[j])}}

\* one element of the brace pattern handed to minimatch
FormatExclude(exclude) ==
  LET str == StripSep(exclude)
  IN IF Len(str) > 0 /\ str[1] = Sep THEN srcAbsolutePath \o str
     ELSE IF \E i \in 1..Len(str) : str[i] = Sep THEN Chars("/**") \o <<Sep>> \o str
     ELSE str

\* a glob without separator against one name: * is any run of characters
RECURSIVE Glob(_, _)
Glob(pat, name) ==
  IF pat = <<>> THEN name = <<>>
  ELSE IF Head(pat) = "*"
       THEN Glob(Tail(pat), name) \/ (name # <<>> /\ Glob(pat, Tail(name)))
       ELSE name # <<>> /\ Head(name) = Head(pat) /\ Glob(Tail(pat), Tail(name))

\* minimatch without the dot option: a leading * does not match a leading dot
SegMatch(pat, name) ==
  IF pat # <<>> /\ Head(pat) = "*" /\ name # <<>> /\ Head(name) = "."
  THEN FALSE
  ELSE Glob(pat, name)

\* a pattern with separators against a path, part by part; ** is any run of
\* directories that do not start with a dot
RECURSIVE SegsMatch(_, _)
SegsMatch(pats, parts) ==
  IF pats = <<>> THEN parts = <<>>
  ELSE IF Head(pats) = <<"*", "*">>
       THEN \/ SegsMatch(Tail(pats), parts)
            \/ /\ parts # <<>>
               /\ Head(parts) = <<>> \/ Head(Head(parts)) # "."
               /\ SegsMatch(pats, Tail(parts))
       ELSE /\ parts # <<>>
            /\ SegMatch(Head(pats), Head(parts))
            /\ SegsMatch(Tail(pats), Tail(parts))

\* minimatch(src, pat, {matchBase: true}) for one alternative of the braces
Minimatch(src, pat) ==
  LET pats == SplitOn(pat, Sep)
      parts == SplitOn(src, Sep)
  IN IF Len(pats) = 1 THEN SegMatch(pat, parts[Len(parts)])
     ELSE SegsMatch(pats, parts)

\* dirPatternRegExp.test(src): src ends with one of the dirBlobs
DirPatternTest(src, blobs) ==
  \E b \in blobs :
    /\ Len(b) <= Len(src)
    /\ SubSeq(src, Len(src) - Len(b) + 1, Len(src)) = b

\* variant: the manifest is filtered like every other file
CopyFilterNoManifestRule(prog, excludeNodeModules, src, isDirectory) ==
  LET excludes == Excludes(prog, excludeNodeModules)
  IN IF ~\E i \in 1..Len(excludes) : Minimatch(src, FormatExclude(excludes[i]))
     THEN TRUE
     ELSE IF ~DirPatternTest(src, DirBlobs(excludes)) THEN FALSE
     ELSE ~isDirectory

\* the filter option handed to fs.copy
CopyFilter(prog, excludeNodeModules, src, isDirectory) ==
  LET excludes == Excludes(prog, excludeNodeModules)
  IN IF ~prog.prebuiltDirectory /\ src = srcAbsolutePath \o Chars("/package.json")
     THEN TRUE
     ELSE IF ~\E i \in 1..Len(excludes) : Minimatch(src, FormatExclude(excludes[i]))
     THEN TRUE
     ELSE IF ~DirPatternTest(src, DirBlobs(excludes)) THEN FALSE
     ELSE ~isDirectory

\* fs.copy: a file is copied when the filter lets through every directory
\* above it and the file itself
FileCopy(prog, tree, excludeNodeModules) ==
  {f \in tree :
     \A k \in 1..Len(f) :
       CopyFilter(prog, excludeNodeModules, PathString(SubSeq(f, 1, k)), k < Len(f))}

\* ---------------------------------------------------------------- build
\* what fs.readFile(program.deployZipfile) yields
ZipfileBytes == {<<"handler.js">>}

\* what npm install may put into the code directory
InstallOutput == {<<"node_modules", "dep.js">>}

\* what post_install.sh puts into the code directory
HookOutput == {<<"generated.js">>}

\* variant: the callbacks of the build steps go on after an error
StageCallbackIgnoresError(err, next) == next

\* the callbacks of _buildAndArchive and _archivePrebuilt:
\* if (err) return archiveCallback(err)
StageCallback(err, next) == IF err THEN "failed" ELSE next

\* _archive: the first asynchronous step of the build
FirstStage(prog, exists) ==
  IF prog.deployZipfile /\ exists THEN "read"
  ELSE IF prog.prebuiltDirectory THEN "copy"
  ELSE "clean"

\* everything deploy and run leave alone while the build is running
BuildFrame ==
  UNCHANGED <<inputVars, platformVars, deployOut, printed, bindingVars, scheduleVars,
              path, regionResult, faults, round, reconciled, shipped, runVars,
              program, sourceTree, zipfileOnDisk, archiveCalls>>

\* the build goes on with the next step
BuildStep(next, files) ==
  /\ stage' = next
  /\ stagesRun' = Append(stagesRun, next)
  /\ scratch' = files
  /\ UNCHANGED <<deployState, params, clientVars, fn, regionPromise, issued, zip, buffer>>

\* deploy: if (err) throw err, or an exception thrown out of a callback
BuildFails ==
  /\ stage' = "failed"
  /\ deployState' = "threw"
  /\ UNCHANGED <<stagesRun, scratch, zip, buffer, params, clientVars, fn, regionPromise, issued>>

\* the archive callback of the caller of _archive: deploy launches the
\* regions, package starts fs.writeFile of the packaged zip
archiveCallback(buf) ==
  IF deployState = "packaging"
  THEN /\ deployState' = "writing"
       /\ UNCHANGED <<params, clientVars, fn, regionPromise, issued>>
  ELSE Launch(buf)

\* package calls _archive; the exported Lambda object serves any number of
\* calls in one process
Package ==
  /\ deployState \in {"init", "packaged"}
  /\ archiveCalls < MaxBuilds
  /\ deployState' = "packaging"
  /\ archiveCalls' = archiveCalls + 1
  /\ stage' = FirstStage(program, zipfileOnDisk)
  /\ stagesRun' = <<FirstStage(program, zipfileOnDisk)>>
  /\ UNCHANGED <<inputVars, platformVars, deployOut, printed, bindingVars, scheduleVars,
                 regionVars, faults, round, reconciled, params, clientVars, shipped, runVars,
                 program, sourceTree, zipfileOnDisk, scratch, zip, buildErr, buffer>>

\* callback of fs.writeFile in package: an error is thrown
PackageWritten(err) ==
  /\ deployState = "writing"
  /\ deployState' = IF err THEN "threw" ELSE "packaged"
  /\ UNCHANGED <<inputVars, platformVars, deployOut, printed, bindingVars, scheduleVars,
                 regionVars, faults, round, reconciled, params, clientVars, shipped, runVars,
                 program, sourceTree, zipfileOnDisk, scratch, zip, stage, stagesRun,
                 buildErr, buffer, archiveCalls>>

\* the developer changes the source tree between two builds
SourceChanges(tree) ==
  /\ deployState = "packaged"
  /\ tree # sourceTree
  /\ sourceTree' = tree
  /\ UNCHANGED <<inputVars, platformVars, deployVars, bindingVars, scheduleVars,
                 regionVars, faults, round, reconciled, params, clientVars, shipped, runVars,
                 program, zipfileOnDisk, scratch, zip, stage, stagesRun,
                 buildErr, buffer, archiveCalls>>

\* deploy calls _archive
Archive ==
  /\ deployState = "init"
  /\ deployState' = "archiving"
  /\ archiveCalls' = archiveCalls + 1
  /\ stage' = FirstStage(program, zipfileOnDisk)
  /\ stagesRun' = <<FirstStage(program, zipfileOnDisk)>>
  /\ UNCHANGED <<inputVars, platformVars, deployOut, printed, bindingVars, scheduleVars,
                 regionVars, faults, round, reconciled, params, clientVars, shipped, runVars,
                 program, sourceTree, zipfileOnDisk, scratch, zip, buildErr, buffer>>

\* callback of fs.readFile in _readArchive: it is the archive callback
ReadArchiveDone(err) ==
  /\ stage = "read"
  /\ buildErr' = IF err THEN "read" ELSE buildErr
  /\ IF err
     THEN BuildFails
     ELSE /\ stage' = "archived"
          /\ buffer' = ZipfileBytes
          /\ archiveCallback(ZipfileBytes)
          /\ UNCHANGED <<stagesRun, scratch, zip>>
  /\ BuildFrame

\* callback of _cleanDirectory: an error of fs.remove or fs.mkdirs is thrown
CleanDone(err) ==
  /\ stage = "clean"
  /\ buildErr' = IF err THEN "clean" ELSE buildErr
  /\ IF err THEN BuildFails ELSE BuildStep("copy", {})
  /\ BuildFrame

\* callback of _fileCopy; then _npmInstall, or _zip for a prebuilt directory
CopyDone(err) ==
  /\ stage = "copy"
  /\ buildErr' = IF err THEN "copy" ELSE buildErr
  /\ LET next == StageCallback(err, IF program.prebuiltDirectory THEN "zip" ELSE "install")
         copied == FileCopy(program, sourceTree, ~program.prebuiltDirectory)
     IN IF next = "failed" THEN BuildFails
        ELSE BuildStep(next, scratch \cup copied)
  /\ BuildFrame

\* callback of execFile in _npmInstall; then _postInstallScript, which goes
\* on to _zip at once when the code directory has no post_install.sh
NpmInstallDone(err, installed) ==
  /\ stage = "install"
  /\ buildErr' = IF err THEN "install" ELSE buildErr
  /\ LET files == scratch \cup installed
         next == StageCallback(err, IF <<"post_install.sh">> \in files THEN "hook"
                                    ELSE "zip")
     IN IF next = "failed" THEN BuildFails
        ELSE BuildStep(next, files)
  /\ BuildFrame

\* callback of exec in _postInstallScript; then _zip
PostInstallDone(err) ==
  /\ stage = "hook"
  /\ buildErr' = IF err THEN "hook" ELSE buildErr
  /\ LET next == StageCallback(err, "zip")
     IN IF next = "failed" THEN BuildFails
        ELSE BuildStep(next, scratch \cup HookOutput)
  /\ BuildFrame

\* _zip: every file of the code directory is added to the zip object of the
\* module, zip.generate yields the archive and the archive callback runs; an
\* error of the walk or of zip.generate is thrown
ZipDone(err) ==
  /\ stage = "zip"
  /\ buildErr' = IF err THEN "zip" ELSE buildErr
  /\ IF err
     THEN BuildFails
     ELSE /\ stage' = "archived"
          /\ zip' = zip \cup scratch
          /\ buffer' = zip \cup scratch
          /\ archiveCallback(zip \cup scratch)
          /\ UNCHANGED <<stagesRun, scratch>>
  /\ BuildFrame

\* the files of the source trees
FullTree ==
  {<<"package.json">>, <<"index.js">>, <<"post_install.sh">>, <<"README.md">>,
   <<".git", "config">>, <<".gitignore">>, <<".editorconfig">>, <<".lambda", "old.js">>,
   <<"build", "out.js">>, <<"node_modules", "dep.js">>, <<"deploy.env">>,
   <<"debug.log">>, <<"notes.swp">>, <<"docs", "api.md">>, <<"sub", "debug.log">>,
   <<"sub", "docs">>, <<"sub", "package.json">>, <<"sub", "build", "out.js">>,
   <<"sub", "node_modules", "dep.js">>}

SourceTrees ==
  {FullTree, FullTree \ {<<"package.json">>, <<"post_install.sh">>}, {<<"index.js">>}}

\* values of program.excludeGlobs
ExcludeGlobInputs == {"", "*.md docs/", "*.json"}

\* what an earlier build has left in the code directory
StaleScratch == {<<"package.json">>, <<"old.js">>}

\* ----------------------------------------------------------------- run
\* the allow-list of run
SupportedRuntimes == {"nodejs4.3", "nodejs6.10"}

Runtimes == SupportedRuntimes \cup {"python2.7"}

\* process.exitCode has not been assigned
NoExitCode == -1

\* the handler of the tests: it copies the wait flag of the event into the
\* context, sets one timer that prints when event.asyncTest is set, and
\* evaluates event.callbackCode, which calls the callback at once
HandlerContext(ev) ==
  [callbackWaitsForEmptyEventLoop |->
     IF ev.callbackWaitsForEmptyEventLoop THEN "true" ELSE "false"]

HandlerTimers(ev) == IF ev.asyncTest THEN 1 ELSE 0

HandlerError(ev) == ev.callbackCode = "callback(new Error(\"e\"))"

HandlerResult(ev) == ev.callbackCode = "callback(null, \"text\")"

TimerOutput == "sleep 3500 msec"

\* variant: an error gives the exit code of an uncaught exception
ExitCodeOfUncaught(err) == IF err THEN 1 ELSE 0

\* callback of _runHandler: process.exitCode
ExitCodeOf(err) == IF err THEN 255 ELSE 0

\* callback of _runHandler: what it logs
CallbackOutput(err, result) ==
  IF err THEN <<"Error: Error: e">>
  ELSE IF result THEN <<"Success:", "\"text\"">> ELSE <<"Success:">>

\* variant: the callback never ends the process
ExitsAtCallbackNever(ctx) == FALSE

\* callback of _runHandler: process.exit() when the flag is exactly false
ExitsAtCallback(ctx) == ctx.callbackWaitsForEmptyEventLoop = "false"

\* the exit status of a process that ends with process.exitCode = code
ExitStatus(code) == IF code = NoExitCode THEN 0 ELSE code

\* run: the runtime check, then _runHandler with the handler's synchronous
\* part and the callback it calls, or _runMultipleHandlers for an array
Run ==
  /\ runState = "init"
  /\ IF program.runtime \notin SupportedRuntimes
     THEN /\ runState' = "exited"
          /\ exitCode' = 254
          /\ UNCHANGED <<context, timers, stdout>>
     ELSE IF event.isArray
     THEN /\ runState' = "loop"
          /\ stdout' = <<"Usually you will receive a single Object from AWS Lambda.">>
          /\ UNCHANGED <<context, timers, exitCode>>
     ELSE LET ctx == HandlerContext(event)
              code == ExitCodeOf(HandlerError(event))
          IN /\ context' = ctx
             /\ timers' = HandlerTimers(event)
             /\ stdout' = CallbackOutput(HandlerError(event), HandlerResult(event))
             /\ IF ExitsAtCallback(ctx)
                THEN runState' = "exited" /\ exitCode' = ExitStatus(code)
                ELSE runState' = "loop" /\ exitCode' = code
  /\ UNCHANGED <<inputVars, platformVars, deployVars, bindingVars, scheduleVars,
                 regionVars, faults, round, reconciled, buildVars, params, clientVars, shipped,
                 event>>

\* a timer of the handler fires
TimerFires ==
  /\ runState = "loop"
  /\ timers > 0
  /\ timers' = timers - 1
  /\ stdout' = Append(stdout, TimerOutput)
  /\ UNCHANGED <<inputVars, platformVars, deployVars, bindingVars, scheduleVars,
                 regionVars, faults, round, reconciled, buildVars, params, clientVars, shipped,
                 event, context, runState, exitCode>>

\* the event loop is empty: the process ends with process.exitCode
EventLoopEmpty ==
  /\ runState = "loop"
  /\ timers = 0
  /\ runState' = "exited"
  /\ exitCode' = ExitStatus(exitCode)
  /\ UNCHANGED <<inputVars, platformVars, deployVars, bindingVars, scheduleVars,
                 regionVars, faults, round, reconciled, buildVars, params, clientVars, shipped,
                 event, context, timers, stdout>>

CallbackCodes == {"callback(null)", "callback(null, \"text\")", "callback(new Error(\"e\"))"}

\* the options of a full build for a supported runtime
DefaultProgram ==
  [runtime |-> "nodejs6.10", deployZipfile |-> FALSE, prebuiltDirectory |-> FALSE,
   excludeGlobs |-> ""]

\* the archive of a source tree with one file has been built
Archived ==
  /\ sourceTree = {<<"index.js">>}
  /\ zipfileOnDisk = FALSE
  /\ scratch = {<<"index.js">>}
  /\ zip = {<<"index.js">>}
  /\ stage = "archived"
  /\ stagesRun = <<"clean", "copy", "install", "zip">>
  /\ buildErr = "none"
  /\ buffer = {<<"index.js">>}
  /\ archiveCalls = 1

\* the run command has not been given
RunIdle ==
  /\ event = [isArray |-> FALSE, asyncTest |-> FALSE, callbackCode |-> "callback(null)",
              callbackWaitsForEmptyEventLoop |-> TRUE]
  /\ context = [callbackWaitsForEmptyEventLoop |-> "undefined"]
  /\ timers = 0
  /\ runState = "idle"
  /\ exitCode = NoExitCode
  /\ stdout = <<>>

InitWith(regionLists, pool, existing) ==
  /\ regions \in regionLists
  /\ eventSourceFile \in BOOLEAN
  /\ fileContent \in [EventSourceMappings : DesiredLists(pool), ScheduleEvents : ScheduleLists]
  /\ ~eventSourceFile =>
       fileContent = [EventSourceMappings |-> <<>>, ScheduleEvents |-> <<>>]
  /\ PlatformInit(Range(regions), existing)
  /\ TaskInit
  /\ deployState = "start"
  /\ program = DefaultProgram
  /\ Archived
  /\ RunIdle

\* one deploy over one or two regions
Init ==
  InitWith({<<"us-east-1">>, <<"us-east-1", "us-west-2">>},
           {d \in DesiredPool : d.EventSourceArn = "A"},
           {e \in ExistingPool : e.EventSourceArn = "A"})

Next ==
  \/ Deploy
  \/ \E r \in AllRegions, err \in BOOLEAN : GetFunctionDone(r, err)
  \/ \E r \in AllRegions, err \in BOOLEAN : CreateFunctionDone(r, err)
  \/ \E r \in AllRegions, err \in BOOLEAN : ListDone(r, err)
  \/ \E r \in AllRegions, err \in BOOLEAN : UpdateCodeDone(r, err)
  \/ \E r \in AllRegions, err \in BOOLEAN : UpdateConfigDone(r, err)
  \/ \E r \in AllRegions, err \in BOOLEAN :
       \E i \in 1..Len(opStatus[r]) : EventSourceOpDone(r, i, err)
  \/ \E r \in AllRegions, err \in BOOLEAN :
       \E i \in 1..Len(schedStatus[r]) : ScheduleAddDone(r, i, err)

Spec == Init /\ [][Next]_vars

\* repeated deploys of one program to one region, every desired and remote set
InitReconcile == InitWith({<<"us-east-1">>}, DesiredPool, ExistingPool)

NextReconcile == Next \/ Redeploy

SpecReconcile == InitReconcile /\ [][NextReconcile]_vars

\* deploy from its start: every way to get the archive, no event source file
InitBuild ==
  /\ regions \in {<<"us-east-1">>, <<"us-east-1", "us-west-2">>}
  /\ eventSourceFile = FALSE
  /\ fileContent = [EventSourceMappings |-> <<>>, ScheduleEvents |-> <<>>]
  /\ PlatformInit(Range(regions), {})
  /\ TaskInit
  /\ deployState = "init"
  /\ program \in [runtime : {"nodejs6.10", "python2.7"}, deployZipfile : BOOLEAN,
                  prebuiltDirectory : BOOLEAN, excludeGlobs : ExcludeGlobInputs]
  /\ sourceTree \in SourceTrees
  /\ zipfileOnDisk \in BOOLEAN
  /\ ~program.deployZipfile => ~zipfileOnDisk
  /\ scratch \in {{}, StaleScratch}
  /\ zip = {}
  /\ stage = "idle"
  /\ stagesRun = <<>>
  /\ buildErr = "none"
  /\ buffer = {}
  /\ archiveCalls = 0
  /\ RunIdle

NextBuild ==
  \/ Archive
  \/ \E err \in BOOLEAN : ReadArchiveDone(err)
  \/ \E err \in BOOLEAN : CleanDone(err)
  \/ \E err \in BOOLEAN : CopyDone(err)
  \/ \E err \in BOOLEAN, installed \in {{}, InstallOutput} : NpmInstallDone(err, installed)
  \/ \E err \in BOOLEAN : PostInstallDone(err)
  \/ \E err \in BOOLEAN : ZipDone(err)
  \/ \E r \in AllRegions, err \in BOOLEAN : GetFunctionDone(r, err)
  \/ \E r \in AllRegions, err \in BOOLEAN : CreateFunctionDone(r, err)
  \/ \E r \in AllRegions, err \in BOOLEAN : ListDone(r, err)
  \/ \E r \in AllRegions, err \in BOOLEAN : UpdateCodeDone(r, err)
  \/ \E r \in AllRegions, err \in BOOLEAN : UpdateConfigDone(r, err)

SpecBuild == InitBuild /\ [][NextBuild]_vars

\* package called repeatedly in one process, the source tree changing between
\* the builds
InitPackage ==
  /\ regions = <<"us-east-1">>
  /\ eventSourceFile = FALSE
  /\ fileContent = [EventSourceMappings |-> <<>>, ScheduleEvents |-> <<>>]
  /\ PlatformInit(Range(regions), {})
  /\ TaskInit
  /\ deployState = "init"
  /\ program \in [runtime : {"nodejs6.10"}, deployZipfile : {FALSE},
                  prebuiltDirectory : BOOLEAN, excludeGlobs : {"", "*.md docs/"}]
  /\ sourceTree \in SourceTrees
  /\ zipfileOnDisk = FALSE
  /\ scratch = {}
  /\ zip = {}
  /\ stage = "idle"
  /\ stagesRun = <<>>
  /\ buildErr = "none"
  /\ buffer = {}
  /\ archiveCalls = 0
  /\ RunIdle

NextPackage ==
  \/ Package
  \/ \E err \in BOOLEAN : CleanDone(err)
  \/ \E err \in BOOLEAN : CopyDone(err)
  \/ \E err \in BOOLEAN, installed \in {{}, InstallOutput} : NpmInstallDone(err, installed)
  \/ \E err \in BOOLEAN : PostInstallDone(err)
  \/ \E err \in BOOLEAN : ZipDone(err)
  \/ \E err \in BOOLEAN : PackageWritten(err)
  \/ \E tree \in SourceTrees : SourceChanges(tree)

SpecPackage == InitPackage /\ [][NextPackage]_vars

\* node-lambda run with every event file of the tests and every runtime
InitRun ==
  /\ regions = <<"us-east-1">>
  /\ eventSourceFile = FALSE
  /\ fileContent = [EventSourceMappings |-> <<>>, ScheduleEvents |-> <<>>]
  /\ PlatformInit({}, {})
  /\ TaskInit
  /\ deployState = "idle"
  /\ Archived
  /\ program \in {[DefaultProgram EXCEPT !.runtime = rt] : rt \in Runtimes}
  /\ event \in [isArray : BOOLEAN, asyncTest : BOOLEAN, callbackCode : CallbackCodes,
                callbackWaitsForEmptyEventLoop : BOOLEAN]
  /\ context = [callbackWaitsForEmptyEventLoop |-> "undefined"]
  /\ timers = 0
  /\ runState = "init"
  /\ exitCode = NoExitCode
  /\ stdout = <<>>

NextRun == Run \/ TimerFires \/ EventLoopEmpty

SpecRun == InitRun /\ [][NextRun]_vars

\* the callbacks of the platform calls of region r
Callback(r) ==
  \E err \in BOOLEAN :
    \/ GetFunctionDone(r, err)
    \/ CreateFunctionDone(r, err)
    \/ ListDone(r, err)
    \/ UpdateCodeDone(r, err)
    \/ UpdateConfigDone(r, err)
    \/ \E i \in 1..Len(opStatus[r]) : EventSourceOpDone(r, i, err)
    \/ \E i \in 1..Len(schedStatus[r]) : ScheduleAddDone(r, i, err)

\* every platform call in flight eventually calls back
FairSpec == Spec /\ WF_vars(Deploy) /\ \A r \in AllRegions : WF_vars(Callback(r))

\* the assumption under which termination is stated: the archive callback
\* runs and every platform call of every region calls back
SpecCallsBack ==
  /\ Init /\ [][Next]_vars
  /\ WF_vars(Deploy)
  /\ \A r \in AllRegions : WF_vars(Callback(r))

TypeOK ==
  /\ awsConfig \in AllRegions \cup {NoRegion}
  /\ \A r \in AllRegions :
       lambda[r].region \in AllRegions \cup {NoRegion}
       /\ scheduleEvents[r].region \in AllRegions \cup {NoRegion}
  /\ deployOut \in {"pending", "printed", "silent", "error"}
  /\ \A r \in AllRegions :
       /\ fn[r] \in {"none", "probe", "new", "list", "code", "config", "ok", "err", "listErr"}
       /\ regionPromise[r] \in {"none", "pending", "resolved", "rejected"}
       /\ Len(opStatus[r]) = Len(updateEventSourceList[r])
  /\ deployState \in {"idle", "init", "archiving", "start", "running", "threw",
                      "packaging", "writing", "packaged"}
  /\ stage \in {"idle", "read", "clean", "copy", "install", "hook", "zip", "archived",
                "failed"}
  /\ program.runtime \in Runtimes
  /\ archiveCalls \in 0..MaxBuilds
  /\ runState \in {"idle", "init", "loop", "exited"}
  /\ timers \in 0..1
  /\ exitCode \in {NoExitCode, 0, 254, 255}

\* ---------------------------------------------------------------- claims
Count(s, v) == Cardinality({i \in 1..Len(s) : s[i] = v})

ArnsOf(s) == {s[i].EventSourceArn : i \in 1..Len(s)}

\* _updateEventSources has built its operation list in region r
DiffRan(r) == evPromise[r] # "none" /\ ~eventSourceList.isNull

Desired == eventSourceList.EventSourceMappings

\* C1: the operation list of the diff has exactly one create for each desired
\* binding whose ARN is not remote, exactly one update for each desired binding
\* whose ARN is remote, exactly one delete for each remote binding whose ARN is
\* not desired, and nothing else.
C1_DiffPartition ==
  \A r \in AllRegions : DiffRan(r) =>
    LET E == existingEventSourceList[r]
        ops == updateEventSourceList[r]
        K == 1..Len(ops)
    IN /\ \A i \in 1..Len(Desired) :
            IF Desired[i].EventSourceArn \notin ArnsOf(E)
            THEN Cardinality({k \in K : /\ ops[k].type = "create"
                                         /\ ops[k].EventSourceArn = Desired[i].EventSourceArn}) = 1
            ELSE Cardinality({k \in K :
                   /\ ops[k].type = "update"
                   /\ \E j \in 1..Len(E) :
                        /\ E[j].EventSourceArn = Desired[i].EventSourceArn
                        /\ E[j].UUID = ops[k].UUID}) = 1
       /\ \A j \in 1..Len(E) :
            E[j].EventSourceArn \notin ArnsOf(Desired) =>
              Cardinality({k \in K : ops[k].type = "delete" /\ ops[k].UUID = E[j].UUID}) = 1
       /\ Len(ops) = Len(Desired)
                     + Cardinality({j \in 1..Len(E) : E[j].EventSourceArn \notin ArnsOf(Desired)})

C1_Witness ==
  \E r \in AllRegions :
    /\ DiffRan(r)
    /\ \A t \in {"create", "update", "delete"} :
         \E k \in 1..Len(updateEventSourceList[r]) : updateEventSourceList[r][k].type = t

ScenarioDesired ==
  <<[EventSourceArn |-> "A", Enabled |-> TRUE, BatchSize |-> 10, StartingPosition |-> ""]>>

ScenarioExisting ==
  <<[EventSourceArn |-> "A", UUID |-> 1, BatchSize |-> 5, Enabled |-> FALSE],
    [EventSourceArn |-> "B", UUID |-> 2, BatchSize |-> 100, Enabled |-> TRUE]>>

\* C2: every update carries the handle of the remote binding with the same ARN
\* and the desired Enabled and BatchSize, every delete carries the handle of an
\* unmatched remote binding; desired [A(enabled, 10)] against remote
\* [A(u1, 5), B(u2)] gives exactly update(u1, 10) and delete(u2).
C2_UpdateCarriesHandle ==
  \A r \in AllRegions : DiffRan(r) =>
    LET E == existingEventSourceList[r]
        ops == updateEventSourceList[r]
    IN /\ \A k \in 1..Len(ops) :
            /\ ops[k].type = "update" =>
                 /\ k <= Len(Desired)
                 /\ ops[k].Enabled = Desired[k].Enabled
                 /\ ops[k].BatchSize = Desired[k].BatchSize
                 /\ \E j \in 1..Len(E) :
                      /\ E[j].EventSourceArn = Desired[k].EventSourceArn
                      /\ E[j].UUID = ops[k].UUID
            /\ ops[k].type = "delete" =>
                 \E j \in 1..Len(E) :
                   /\ E[j].UUID = ops[k].UUID
                   /\ E[j].EventSourceArn \notin ArnsOf(Desired)
       /\ (Desired = ScenarioDesired /\ E = ScenarioExisting) =>
            ops = <<[type |-> "update", FunctionName |-> FunctionName, Enabled |-> TRUE,
                     BatchSize |-> 10, UUID |-> 1],
                    [type |-> "delete", UUID |-> 2]>>

C2_Witness ==
  \E r \in AllRegions :
    /\ DiffRan(r)
    /\ Desired = ScenarioDesired
    /\ existingEventSourceList[r] = ScenarioExisting
    /\ Len(updateEventSourceList[r]) = 2

\* C3: once a deploy has resolved in a region (function and every binding
\* operation succeeded), the next deploy of the same desired state issues no
\* create and no delete there: its operation list holds updates only.
C3_Idempotent ==
  \A r \in AllRegions :
    (round > 1 /\ reconciled[r] /\ evPromise[r] # "none") =>
      /\ \A k \in 1..Len(updateEventSourceList[r]) : updateEventSourceList[r][k].type = "update"
      /\ Count(issued[r], "createEventSourceMapping") = 0
      /\ Count(issued[r], "deleteEventSourceMapping") = 0

\* the second deploy diffs against a binding the first deploy created
C3_Witness ==
  \E r \in AllRegions :
    /\ round = 2 /\ reconciled[r] /\ evPromise[r] # "none"
    /\ Len(updateEventSourceList[r]) > 0
    /\ \E e \in Range(existingEventSourceList[r]) : e.UUID >= FirstNewUUID

\* C4: on the create path (getFunction called back with an error) exactly one
\* createFunction is issued and no listEventSourceMappings, updateFunctionCode
\* or updateFunctionConfiguration; the existing list handed to the diff is
\* empty, and the binding calls are one createEventSourceMapping per desired
\* binding and no update or delete.
C4_CreatePath ==
  \A r \in AllRegions : path[r] = "create" =>
    /\ Count(issued[r], "createFunction") = 1
    /\ Count(issued[r], "listEventSourceMappings") = 0
    /\ Count(issued[r], "updateFunctionCode") = 0
    /\ Count(issued[r], "updateFunctionConfiguration") = 0
    /\ Count(issued[r], "updateEventSourceMapping") = 0
    /\ Count(issued[r], "deleteEventSourceMapping") = 0
    /\ evPromise[r] # "none" =>
         /\ existingEventSourceList[r] = <<>>
         /\ Count(issued[r], "createEventSourceMapping")
              = (IF eventSourceList.isNull THEN 0 ELSE Len(Desired))
         /\ ~eventSourceList.isNull =>
              /\ Len(updateEventSourceList[r]) = Len(Desired)
              /\ \A i \in 1..Len(Desired) :
                   /\ updateEventSourceList[r][i].type = "create"
                   /\ updateEventSourceList[r][i].EventSourceArn = Desired[i].EventSourceArn

\* the scenario of the spec: function absent, desired [C], one create
C4_Witness ==
  \E r \in AllRegions :
    /\ path[r] = "create" /\ fn[r] = "ok"
    /\ ArnsOf(Desired) = {"C"}
    /\ Len(updateEventSourceList[r]) = 1
    /\ issued[r] = <<"getFunction", "createFunction", "createEventSourceMapping">>

Settled(r) == regionPromise[r] \in {"resolved", "rejected"}

BindingCalls(r) ==
  Count(issued[r], "createEventSourceMapping")
  + Count(issued[r], "updateEventSourceMapping")
  + Count(issued[r], "deleteEventSourceMapping")

ScheduleCalls(r) == Count(issued[r], "scheduleEvents.add")

\* C5: when one region of a deploy has failed after its probe and every region
\* has finished, deploy reports a result set with one entry per region.
C5_MultiRegionIsolation ==
  ( /\ \A r \in Range(regions) : Settled(r) /\ Quiet(r)
    /\ \E k \in Range(regions) : regionPromise[k] = "rejected" /\ path[k] = "create" )
  => /\ deployOut = "printed"
     /\ Len(printed) = Len(regions)

\* C6: a region in which the function call succeeded and one binding call
\* failed still resolves, with one outcome per binding operation.
C6_BindingFailureNotEscalated ==
  \A r \in AllRegions :
    ( /\ fn[r] = "ok" /\ Quiet(r)
      /\ \E i \in 1..Len(opStatus[r]) : opStatus[r][i] = "err" )
    => /\ regionPromise[r] = "resolved"
       /\ \E k \in 1..Len(regionResult[r]) :
            Len(regionResult[r][k]) = Len(updateEventSourceList[r])

\* getFunction called back with an error although the function exists
ProbeFailed(r) == path[r] = "create" /\ fn[r] = "new" /\ fnExists[r]

C9_SchedulesSequential ==
  \A r \in AllRegions :
    /\ Cardinality({i \in 1..Len(schedStatus[r]) : schedStatus[r][i] = "inflight"}) <= 1
    /\ \A i \in 2..Len(schedStatus[r]) : schedStatus[r][i - 1] # "inflight"

\* region r has issued every call of its reconcile and none is in flight
RanToEnd(r) ==
  /\ Quiet(r) /\ Settled(r)
  /\ fn[r] = "ok" =>
       /\ ~eventSourceList.isNull =>
            /\ BindingCalls(r) = Len(DiffOps(FunctionName, existingEventSourceList[r], Desired))
            /\ ScheduleCalls(r) = Len(eventSourceList.ScheduleEvents)
       /\ \A i \in 1..Len(opStatus[r]) : opStatus[r][i] \in {"ok", "err"}

\* C10: once a region has failed, every region of the deploy still issues all
\* its calls and runs to its own completion or failure.
C10_NoCancellation ==
  (\E r \in Range(regions) : regionPromise[r] = "rejected")
    ~> (\A q \in Range(regions) : RanToEnd(q))

\* one region has failed while the other still has calls in flight
C10_Witness ==
  \E r, q \in Range(regions) :
    /\ r # q
    /\ regionPromise[r] = "rejected"
    /\ deployOut = "error"
    /\ ~Quiet(q)

\* C11: whatever deploy reports, it reports when every region has settled
\* and no platform call of any region is in flight.
C11_ReportsAfterAllRegions ==
  deployOut # "pending" => \A r \in Range(regions) : Settled(r) /\ Quiet(r)

\* C12: one deploy calls _archive once, however many regions it has, and
\* every createFunction and updateFunctionCode request of every region
\* carries the archive that call produced.
C12_BuiltOnceSameBytes ==
  /\ archiveCalls <= 1
  /\ deployState = "running" => archiveCalls = 1 /\ stage = "archived"
  /\ \A r \in AllRegions :
       /\ Len(shipped[r]) =
            Count(issued[r], "createFunction") + Count(issued[r], "updateFunctionCode")
       /\ \A i \in 1..Len(shipped[r]) : shipped[r][i] = buffer

\* a zipped archive has gone to one region with createFunction and to the
\* other with updateFunctionCode
C12_Witness ==
  /\ Len(regions) = 2
  /\ stagesRun # <<>> /\ stagesRun[Len(stagesRun)] = "zip"
  /\ Count(issued["us-east-1"], "createFunction") = 1
  /\ Count(issued["us-west-2"], "updateFunctionCode") = 1
  /\ shipped["us-east-1"] = <<buffer>> /\ shipped["us-west-2"] = <<buffer>>
  /\ <<"index.js">> \in buffer

\* C13: when a build step has reported an error, no later step has started,
\* there is no archive, and no platform call has been issued in any region.
C13_BuildFailureAborts ==
  buildErr # "none" =>
    /\ stage = "failed"
    /\ stagesRun[Len(stagesRun)] = buildErr
    /\ buffer = {}
    /\ params = NoParams
    /\ deployState = "threw"
    /\ \A r \in AllRegions : issued[r] = <<>> /\ fn[r] = "none"

\* npm install has failed in a deploy to two regions
C13_Witness ==
  /\ buildErr = "install"
  /\ stagesRun = <<"clean", "copy", "install">>
  /\ Len(regions) = 2
  /\ deployState = "threw"

\* C14: an archive file that exists is returned as it is, without copy,
\* install, hook or zip, even when a prebuilt directory is given; otherwise a
\* prebuilt directory is copied and zipped without install and hook, and
\* package.json is in the archive only if it is in the prebuilt directory;
\* otherwise the full pipeline runs.
C14_ShortCircuits ==
  stage = "archived" =>
    IF program.deployZipfile /\ zipfileOnDisk
    THEN buffer = ZipfileBytes /\ stagesRun = <<"read">>
    ELSE IF program.prebuiltDirectory
    THEN /\ stagesRun = <<"copy", "zip">>
         /\ <<"package.json">> \in buffer => <<"package.json">> \in sourceTree
    ELSE stagesRun \in {<<"clean", "copy", "install", "zip">>,
                        <<"clean", "copy", "install", "hook", "zip">>}

\* the file lies below a root directory the build excludes
RootedAtExcludedDir(f) ==
  Len(f) > 1 /\ f[1] \in {".git", ".lambda", "build", "node_modules"}

\* the file matches an excluded file pattern or a glob of program.excludeGlobs;
\* a glob that ends with the separator stands for the directories of that name
MatchesExcludedPattern(f) ==
  LET base == Chars(f[Len(f)])
      globs == IF program.excludeGlobs = "" THEN <<>>
               ELSE SplitOn(Chars(program.excludeGlobs), " ")
  IN \/ \E pat \in {".git*", "*.swp", ".editorconfig", "deploy.env", "*.log"} :
          SegMatch(Chars(pat), base)
     \/ \E i \in 1..Len(globs) :
          IF EndsWithSep(globs[i])
          THEN \E k \in 1..(Len(f) - 1) : Chars(f[k]) = StripSep(globs[i])
          ELSE SegMatch(globs[i], base)

\* the full pipeline has copied the source tree into the code directory
StagedFullBuild ==
  /\ ~program.prebuiltDirectory
  /\ stagesRun # <<>> /\ stagesRun[1] = "clean"
  /\ stage \in {"install", "hook", "zip", "archived"}

\* C15 as stated: the staged copy and the archive of a build that is not
\* prebuilt hold package.json when the source has it, and no other file that
\* lies below an excluded directory or matches an excluded pattern or glob.
C15_BuildExclusion ==
  StagedFullBuild =>
    /\ <<"package.json">> \in sourceTree => <<"package.json">> \in scratch
    /\ stage = "archived" => buffer = scratch
    /\ \A f \in scratch \ {<<"package.json">>} :
         ~RootedAtExcludedDir(f) /\ ~MatchesExcludedPattern(f)

\* C15 amended: the staged copy holds package.json when the source has it,
\* and no other file that lies below an excluded directory or matches an
\* excluded pattern or glob; the archive holds the staged copy and what npm
\* install and post_install.sh have added to the code directory, the files
\* of the install below the root node_modules included.
C15_ExclusionAmended ==
  StagedFullBuild =>
    /\ <<"package.json">> \in sourceTree => <<"package.json">> \in scratch
    /\ stage = "archived" => buffer = scratch
    /\ scratch \ (InstallOutput \cup HookOutput) =
         {f \in sourceTree : f = <<"package.json">> \/
            (~RootedAtExcludedDir(f) /\ ~MatchesExcludedPattern(f))}
    /\ stage = "install" => scratch \cap (InstallOutput \cup HookOutput) = {}

\* the archive of the full tree with the glob *.json: package.json is in it,
\* sub/package.json is not, and so is what npm install has added
C15_Witness ==
  /\ StagedFullBuild /\ stage = "archived"
  /\ sourceTree = FullTree
  /\ program.excludeGlobs = "*.json"
  /\ <<"package.json">> \in buffer
  /\ <<"sub", "package.json">> \notin buffer
  /\ <<"node_modules", "dep.js">> \in buffer

\* C16: without an event source file no binding call and no schedule upsert is
\* ever issued and no step changes the remote event source mappings.
C16_NoFileNoOp ==
  [][~eventSourceFile =>
       /\ remote' = remote
       /\ \A r \in AllRegions : BindingCalls(r)' = 0 /\ ScheduleCalls(r)' = 0]_vars

\* a deploy without a file has resolved in a region that has remote mappings
C16_Witness ==
  \E r \in AllRegions :
    /\ ~eventSourceFile
    /\ regionPromise[r] = "resolved"
    /\ Quiet(r)
    /\ Cardinality(remote[r]) = 2

\* no binding outcome and no schedule outcome in any region of the deploy
NoOutcomes ==
  \A r \in Range(regions) :
    /\ Len(updateEventSourceList[r]) = 0
    /\ eventSourceList.isNull \/ Len(eventSourceList.ScheduleEvents) = 0

AllResolved == \A r \in Range(regions) : regionPromise[r] = "resolved"

\* the function of region r has been created or updated by this deploy
FunctionChanged(r) == fn[r] \in {"config", "ok"}

\* C17 as stated: deploy is silent exactly when no region has a binding
\* outcome, a schedule outcome or a function change, and prints the result
\* set of all regions in every other case.
C17_SuppressIffNothingChanged ==
  deployOut # "pending" =>
    IF NoOutcomes /\ \A r \in Range(regions) : ~FunctionChanged(r)
    THEN deployOut = "silent"
    ELSE deployOut = "printed" /\ Len(printed) = Len(regions)

\* C17 amended: deploy is silent exactly when every region resolved with no
\* binding outcome and no schedule outcome, whether or not the function was
\* created or updated; it prints the result set of all regions exactly when
\* every region resolved and some region has an outcome; when a region is
\* rejected it prints neither and logs that error.
C17_SuppressAmended ==
  /\ deployOut = "silent" <=> (deployState = "running" /\ AllResolved /\ NoOutcomes)
  /\ deployOut = "printed" <=> (deployState = "running" /\ AllResolved /\ ~NoOutcomes)
  /\ deployOut = "printed" =>
       /\ Len(printed) = Len(regions)
       /\ \A i \in 1..Len(regions) : printed[i] = regionResult[regions[i]]
  /\ deployOut = "error" <=> \E r \in Range(regions) : regionPromise[r] = "rejected"

\* the function was created and the output suppressed
C17_Witness ==
  /\ deployOut = "silent"
  /\ \E r \in Range(regions) : path[r] = "create" /\ fn[r] = "ok"
  /\ \E r \in Range(regions) : Len(schedStatus[r]) = 0

\* C18: a deploy with a runtime outside the allow-list starts no build step
\* and issues no platform call in any region.
C18_InvalidRuntimeRejected ==
  program.runtime \notin SupportedRuntimes =>
    /\ archiveCalls = 0
    /\ stagesRun = <<>>
    /\ \A r \in AllRegions : issued[r] = <<>>

\* run has called the handler with a single event
SingleEventRun ==
  /\ runState \in {"loop", "exited"}
  /\ program.runtime \in SupportedRuntimes
  /\ ~event.isArray

CalledBackWithError == event.callbackCode = "callback(new Error(\"e\"))"

\* C19: run with a single event exits with 0 when the handler called the
\* callback without an error and with 255 when it called it with an error,
\* with and without pending asynchronous work, for either wait flag.
C19_RunExitCode ==
  (SingleEventRun /\ runState = "exited") =>
    exitCode = IF CalledBackWithError THEN 255 ELSE 0

\* an error callback with a timer pending and the wait flag false
C19_Witness ==
  /\ SingleEventRun /\ runState = "exited"
  /\ event.asyncTest /\ ~event.callbackWaitsForEmptyEventLoop
  /\ CalledBackWithError
  /\ exitCode = 255

\* C20: with the wait flag true the process exits only when the timers of the
\* handler have fired, their output following the output of the callback;
\* with the flag false it exits in the callback and no timer ever fires.
C20_WaitFlag ==
  SingleEventRun =>
    IF event.callbackWaitsForEmptyEventLoop
    THEN runState = "exited" =>
           /\ timers = 0
           /\ stdout[1] \in {"Success:", "Error: Error: e"}
           /\ event.asyncTest =>
                /\ stdout[Len(stdout)] = TimerOutput
                /\ Count(stdout, TimerOutput) = 1
    ELSE /\ runState = "exited"
         /\ timers = (IF event.asyncTest THEN 1 ELSE 0)
         /\ Count(stdout, TimerOutput) = 0
         /\ stdout[Len(stdout)] \in {"Success:", "\"text\"", "Error: Error: e"}

\* the timer has printed after Success: and the process has ended
C20_Witness ==
  /\ SingleEventRun /\ runState = "exited"
  /\ event.asyncTest /\ event.callbackWaitsForEmptyEventLoop
  /\ stdout = <<"Success:", TimerOutput>>
  /\ exitCode = 0

\* C21: schedule application halts on the first failure: when the upsert of
\* a schedule has failed, no upsert of a schedule declared after it has been
\* started in that region.
C21_HaltsOnFirstFailure ==
  \A r \in AllRegions :
    \A i \in 1..Len(schedStatus[r]) :
      schedStatus[r][i] = "err" => Len(schedStatus[r]) <= i

\* C22: the schedule outcomes of a region are reported successful only when
\* every schedule upsert of the region has completed successfully, and a
\* failed upsert makes what _updateScheduleEvents returns a failure.
C22_ScheduleFailureReported ==
  \A r \in AllRegions :
    /\ schedPromise[r] = "resolved" =>
         \A i \in 1..Len(schedStatus[r]) : schedStatus[r][i] = "ok"
    /\ (\E i \in 1..Len(schedStatus[r]) : schedStatus[r][i] = "err") =>
         schedPromise[r] = "rejected"

C24_ArchiveIsScratch ==
  (stage = "archived" /\ stagesRun # <<>> /\ stagesRun[Len(stagesRun)] = "zip") =>
    buffer = scratch

\* number of configuration updates region r has issued
ConfigCalls(r) == Count(issued[r], "updateFunctionConfiguration")

\* C25: on the update path the configuration update is issued only in the
\* step in which the code update succeeds; when the code update fails the
\* region fails in that step and issues nothing, and schedule upserts are
\* issued only in the step in which the configuration update succeeds.
C25_ConfigAfterCode ==
  [][\A r \in AllRegions :
       /\ (fn[r] = "code" /\ fn'[r] = "err") =>
            /\ regionPromise'[r] = "rejected"
            /\ issued'[r] = issued[r]
       /\ ConfigCalls(r)' > ConfigCalls(r) =>
            fn[r] = "code" /\ fn'[r] = "config"
       /\ (path'[r] = "update" /\ ScheduleCalls(r)' > ScheduleCalls(r)) =>
            fn[r] = "config" /\ fn'[r] = "ok"]_vars

\* the code update of a region with declared schedules has failed: the region
\* is rejected with neither a configuration update nor a schedule upsert issued
C25_Witness ==
  \E r \in Range(regions) :
    /\ path[r] = "update" /\ fn[r] = "err"
    /\ Count(issued[r], "updateFunctionCode") = 1
    /\ ConfigCalls(r) = 0 /\ ScheduleCalls(r) = 0
    /\ regionPromise[r] = "rejected"
    /\ ~eventSourceList.isNull /\ eventSourceList.ScheduleEvents # <<>>

\* C26: on the update path, when fetching the existing event-source bindings
\* has failed, the region has failed and has issued nothing but the probe and
\* the fetch: no code or configuration update, no binding operation and no
\* schedule upsert.
C26_ListFailureStopsRegion ==
  \A r \in AllRegions :
    fn[r] = "listErr" =>
      /\ path[r] = "update"
      /\ regionPromise[r] = "rejected"
      /\ issued[r] = <<"getFunction", "listEventSourceMappings">>
      /\ shipped[r] = <<>>
      /\ opStatus[r] = <<>> /\ schedStatus[r] = <<>>

\* the fetch of one region has failed and deploy has reported the error while
\* the function of that region exists
C26_Witness ==
  \E r \in Range(regions) :
    /\ fn[r] = "listErr" /\ fnExists[r]
    /\ regionPromise[r] = "rejected"
    /\ deployOut = "error"

\* C27: when every platform call calls back, the reconcile of every region
\* of a launched deploy eventually settles, a settled region never changes
\* its outcome, and deploy eventually reaches its final report or its error
\* handler.
C27_Termination ==
  /\ (\E r \in AllRegions : regionPromise[r] = "pending")
       ~> /\ \A r \in Range(regions) : Settled(r)
          /\ deployOut # "pending"
  /\ [][\A r \in AllRegions :
          Settled(r) => regionPromise'[r] = regionPromise[r]]_vars

\* two regions have settled on different paths, one after a failed list call
\* and one after its bindings and schedules, and deploy has reached its
\* error handler
C27_Witness ==
  \E r, q \in Range(regions) :
    /\ fn[r] = "listErr" /\ regionPromise[r] = "rejected"
    /\ path[q] = "create" /\ regionPromise[q] = "resolved"
    /\ Quiet(q)
    /\ deployOut = "error"

====
